---- MODULE Spec2Model ----
(***************************************************************************)
(* Model of the turl-core resolution and extraction pipeline:              *)
(*   provider/codex.rs  CodexProvider::{find_candidates, choose_latest,    *)
(*                      resolve}                                           *)
(*   render.rs          extract_messages, extract_codex_message,           *)
(*                      extract_claude_message, extract_text               *)
(* Strings are sequences of one-character strings, so that prefix, suffix  *)
(* and trimming are computed and not assumed.                              *)
(***************************************************************************)
EXTENDS Integers, Sequences, FiniteSets, TLC

VARIABLES
    fs,          \* the directory tree below the provider root, per root
    session_id,  \* the session id resolve is called with
    resolved,    \* what resolve returned ("none" before the call)
    walked,      \* the roots find_candidates was called on, in call order
    provider,    \* the ProviderKind extract_messages is called with
    raw_jsonl,   \* the raw text extract_messages is called with
    extracted    \* what extract_messages returned ("none" before the call)

vars == <<fs, session_id, resolved, walked, provider, raw_jsonl, extracted>>

(***************************************************************************)
(* Bounds of the model.                                                    *)
(***************************************************************************)
MaxFiles == 3   \* files below both roots together
MaxTime == 1    \* modification times range over -MaxTime..MaxTime seconds
MaxMid == 3     \* characters between the prefix and the suffix of a name
MaxSid == 2     \* characters of a session id
MaxText == 2    \* characters of a string content or agent_message text
MaxItems == 2   \* items of a content array
MaxRaw == 5     \* tokens of a raw text of several lines

SeqsUpTo(S, n) == UNION {[1..k -> S] : k \in 0..n}

(***************************************************************************)
(* Strings.                                                                *)
(***************************************************************************)
StartsWith(s, p) == Len(s) >= Len(p) /\ SubSeq(s, 1, Len(p)) = p

EndsWith(s, p) == Len(s) >= Len(p) /\ SubSeq(s, Len(s) - Len(p) + 1, Len(s)) = p

RolloutPrefix == <<"r", "o", "l", "l", "o", "u", "t", "-">>

JsonlSuffix == <<".", "j", "s", "o", "n", "l">>

(***************************************************************************)
(* The file system.  A root is [exists, entries]; entries lists what       *)
(* WalkDir yields below the root, in traversal order.  An entry is         *)
(* [name, kind, mtime]; mtime is the outcome of fs::metadata(..).modified()*)
(* for it: [ok |-> TRUE, t |-> seconds relative to the epoch] or           *)
(* [ok |-> FALSE, t |-> 0] when it cannot be read.  The path of entry i of *)
(* root r is [root |-> r, idx |-> i, name |-> its name].                   *)
(***************************************************************************)
SessionsRoot == "sessions"

ArchivedRoot == "archived_sessions"

Roots == {SessionsRoot, ArchivedRoot}

UNIX_EPOCH == 0

Unreadable == [ok |-> FALSE, t |-> 0]

Times == (0 - MaxTime)..MaxTime

MTimes == {[ok |-> TRUE, t |-> t] : t \in Times} \cup {Unreadable}

NoPath == [root |-> "", idx |-> 0, name |-> <<>>]

PathOf(root, i) == [root |-> root, idx |-> i, name |-> fs[root].entries[i].name]

EntryAt(path) == fs[path.root].entries[path.idx]

\* find_candidates: the name test of the filter closure
NameMatches(name, sid) ==
    LET needle == sid \o JsonlSuffix
    IN  StartsWith(name, RolloutPrefix) /\ EndsWith(name, needle)

\* find_candidates: the paths of the regular files below root whose name
\* matches, in traversal order; none when the root does not exist
find_candidates(root, sid) ==
    IF ~fs[root].exists
    THEN <<>>
    ELSE LET n == Len(fs[root].entries)
             keep(i) == /\ fs[root].entries[i].kind = "file"
                        /\ NameMatches(fs[root].entries[i].name, sid)
             RECURSIVE walk(_)
             walk(i) == IF i > n THEN <<>>
                        ELSE IF keep(i) THEN <<PathOf(root, i)>> \o walk(i + 1)
                        ELSE walk(i + 1)
         IN  walk(1)

\* choose_latest: the score of a path, unwrap_or(UNIX_EPOCH)
Modified(path) ==
    IF EntryAt(path).mtime.ok THEN EntryAt(path).mtime.t ELSE UNIX_EPOCH

\* sort_by_key(Reverse(modified)): a stable sort, latest first
RECURSIVE InsertScored(_, _)
InsertScored(sorted, p) ==
    IF sorted = <<>> THEN <<p>>
    ELSE IF Modified(Head(sorted)) >= Modified(p)
         THEN <<Head(sorted)>> \o InsertScored(Tail(sorted), p)
         ELSE <<p>> \o sorted

RECURSIVE SortScored(_)
SortScored(paths) ==
    IF paths = <<>> THEN <<>>
    ELSE InsertScored(SortScored(SubSeq(paths, 1, Len(paths) - 1)),
                      paths[Len(paths)])

\* choose_latest without the sort: the first path walked
choose_first(paths) ==
    IF paths = <<>>
    THEN [some |-> FALSE, path |-> NoPath, count |-> 0]
    ELSE [some |-> TRUE, path |-> Head(paths), count |-> Len(paths)]

\* choose_latest: None for no paths, else (first of the sorted paths, count)
choose_latest(paths) ==
    IF paths = <<>>
    THEN [some |-> FALSE, path |-> NoPath, count |-> 0]
    ELSE [some |-> TRUE, path |-> Head(SortScored(paths)), count |-> Len(paths)]

\* the warning resolve formats for count > 1
Warning(prefix, count, sid, selected) ==
    [prefix |-> prefix, count |-> count, session_id |-> sid, selected |-> selected]

\* Found warning from the first candidate on
FoundAlwaysWarning(source, prefix, sid, chosen) ==
    [status |-> "ok", provider |-> "codex", session_id |-> sid,
     path |-> chosen.path, source |-> source,
     candidate_count |-> chosen.count,
     warnings |-> IF chosen.count >= 1
                  THEN <<Warning(prefix, chosen.count, sid, chosen.path)>>
                  ELSE <<>>,
     searched_roots |-> <<>>]

Found(source, prefix, sid, chosen) ==
    [status |-> "ok", provider |-> "codex", session_id |-> sid,
     path |-> chosen.path, source |-> source,
     candidate_count |-> chosen.count,
     warnings |-> IF chosen.count > 1
                  THEN <<Warning(prefix, chosen.count, sid, chosen.path)>>
                  ELSE <<>>,
     searched_roots |-> <<>>]

\* NotFound listing only the root searched last
NotFoundLastRoot(sid) ==
    [status |-> "ThreadNotFound", provider |-> "codex", session_id |-> sid,
     path |-> NoPath, source |-> "", candidate_count |-> 0, warnings |-> <<>>,
     searched_roots |-> <<ArchivedRoot>>]

NotFound(sid) ==
    [status |-> "ThreadNotFound", provider |-> "codex", session_id |-> sid,
     path |-> NoPath, source |-> "", candidate_count |-> 0, warnings |-> <<>>,
     searched_roots |-> <<SessionsRoot, ArchivedRoot>>]

Unresolved ==
    [status |-> "none", provider |-> "", session_id |-> <<>>,
     path |-> NoPath, source |-> "", candidate_count |-> 0, warnings |-> <<>>,
     searched_roots |-> <<>>]

\* resolve ranking the candidates of both roots together
ResolveNewestOfBoth(sid) ==
    LET both == choose_latest(find_candidates(SessionsRoot, sid)
                                  \o find_candidates(ArchivedRoot, sid))
    IN  IF ~both.some
        THEN [walked |-> <<SessionsRoot, ArchivedRoot>>, result |-> NotFound(sid)]
        ELSE IF both.path.root = SessionsRoot
        THEN [walked |-> <<SessionsRoot, ArchivedRoot>>,
              result |-> Found("codex:sessions", "multiple matches found", sid, both)]
        ELSE [walked |-> <<SessionsRoot, ArchivedRoot>>,
              result |-> Found("codex:archived_sessions",
                               "multiple archived matches found", sid, both)]

\* CodexProvider::resolve, with the find_candidates calls it makes
ResolveThread(sid) ==
    LET active == choose_latest(find_candidates(SessionsRoot, sid))
        archived == choose_latest(find_candidates(ArchivedRoot, sid))
    IN  IF active.some
        THEN [walked |-> <<SessionsRoot>>,
              result |-> Found("codex:sessions", "multiple matches found", sid, active)]
        ELSE IF archived.some
        THEN [walked |-> <<SessionsRoot, ArchivedRoot>>,
              result |-> Found("codex:archived_sessions",
                               "multiple archived matches found", sid, archived)]
        ELSE [walked |-> <<SessionsRoot, ArchivedRoot>>, result |-> NotFound(sid)]

(***************************************************************************)
(* JSON documents, restricted to the fields render.rs reads.  A scalar     *)
(* field is [k, s]: k = "absent" (no such key), "str" (a string, s its     *)
(* characters) or "num" (present, not a string).  A content is absent, a   *)
(* string, an array of items or something else ("num").  An item has the   *)
(* scalar fields type, text, input_text, output_text.  The object below    *)
(* "payload" or "message" has the fields type, role, content, message.     *)
(***************************************************************************)
Absent == [k |-> "absent", s |-> <<>>]

Num == [k |-> "num", s |-> <<>>]

Str(s) == [k |-> "str", s |-> s]

Word(w) == Str(<<w>>)

NoContent == [k |-> "absent", s |-> <<>>, items |-> <<>>]

NumContent == [k |-> "num", s |-> <<>>, items |-> <<>>]

StrContent(s) == [k |-> "str", s |-> s, items |-> <<>>]

ArrContent(items) == [k |-> "arr", s |-> <<>>, items |-> items]

NoObject ==
    [present |-> FALSE, type |-> Absent, role |-> Absent, content |-> NoContent,
     message |-> Absent]

TOOL_TYPES ==
    {"tool_call", "tool_result", "tool_use", "function_call", "function_result",
     "function_response"}

Whitespace == {" ", "\n"}

\* str::trim
RECURSIVE TrimStart(_)
TrimStart(s) ==
    IF s # <<>> /\ Head(s) \in Whitespace THEN TrimStart(Tail(s)) ELSE s

RECURSIVE TrimEnd(_)
TrimEnd(s) ==
    IF s # <<>> /\ s[Len(s)] \in Whitespace
    THEN TrimEnd(SubSeq(s, 1, Len(s) - 1))
    ELSE s

Trim(s) == TrimEnd(TrimStart(s))

\* chunks.join("\n\n")
RECURSIVE Join(_)
Join(chunks) ==
    IF chunks = <<>> THEN <<>>
    ELSE IF Len(chunks) = 1 THEN chunks[1]
    ELSE chunks[1] \o <<"\n", "\n">> \o Join(Tail(chunks))

\* item.get(key).and_then(Value::as_str) with a non-blank result
NonBlankStr(field) == field.k = "str" /\ Trim(field.s) # <<>>

\* ItemChunks without the TOOL_TYPES test
ItemChunksUnfiltered(item) ==
    IF NonBlankStr(item.text) THEN <<Trim(item.text.s)>>
    ELSE IF NonBlankStr(item.input_text) THEN <<Trim(item.input_text.s)>>
    ELSE IF NonBlankStr(item.output_text) THEN <<Trim(item.output_text.s)>>
    ELSE <<>>

\* ItemChunks pushing the texts as they are
ItemChunksUntrimmed(item) ==
    IF item.type.k = "str" /\ Len(item.type.s) = 1 /\ item.type.s[1] \in TOOL_TYPES
    THEN <<>>
    ELSE IF NonBlankStr(item.text) THEN <<item.text.s>>
    ELSE IF NonBlankStr(item.input_text) THEN <<item.input_text.s>>
    ELSE IF NonBlankStr(item.output_text) THEN <<item.output_text.s>>
    ELSE <<>>

\* extract_text: what one item of the array pushes onto chunks
ItemChunks(item) ==
    IF item.type.k = "str" /\ Len(item.type.s) = 1 /\ item.type.s[1] \in TOOL_TYPES
    THEN <<>>
    ELSE IF NonBlankStr(item.text) THEN <<Trim(item.text.s)>>
    ELSE IF NonBlankStr(item.input_text) THEN <<Trim(item.input_text.s)>>
    ELSE IF NonBlankStr(item.output_text) THEN <<Trim(item.output_text.s)>>
    ELSE <<>>

RECURSIVE Chunks(_)
Chunks(items) ==
    IF items = <<>> THEN <<>> ELSE ItemChunks(Head(items)) \o Chunks(Tail(items))

extract_text(content) ==
    IF content.k = "str" THEN content.s
    ELSE IF content.k = "arr" THEN Join(Chunks(content.items))
    ELSE <<>>

None == [some |-> FALSE, role |-> "", text |-> <<>>]

Some(role, text) == [some |-> TRUE, role |-> role, text |-> text]

\* parse_role: Option<MessageRole> as [some, role]
parse_role(role) ==
    IF role = <<"user">> THEN [some |-> TRUE, role |-> "User"]
    ELSE IF role = <<"assistant">> THEN [some |-> TRUE, role |-> "Assistant"]
    ELSE [some |-> FALSE, role |-> ""]

extract_codex_message(value) ==
    IF value.type.k # "str" THEN None
    ELSE IF value.type.s = <<"response_item">>
    THEN IF ~value.payload.present THEN None
         ELSE IF value.payload.type.k # "str" THEN None
         ELSE IF value.payload.type.s # <<"message">> THEN None
         ELSE IF value.payload.role.k # "str" THEN None
         ELSE IF ~parse_role(value.payload.role.s).some THEN None
         ELSE LET text == extract_text(value.payload.content)
              IN  IF Trim(text) = <<>> THEN None
                  ELSE Some(parse_role(value.payload.role.s).role, text)
    ELSE IF /\ value.type.s = <<"event_msg">>
            /\ value.payload.type.k = "str"
            /\ value.payload.type.s = <<"agent_message">>
    THEN LET text == IF value.payload.message.k = "str"
                     THEN value.payload.message.s
                     ELSE <<>>
         IN  IF Trim(text) = <<>> THEN None ELSE Some("Assistant", text)
    ELSE None

\* extract_claude_message without the test for an empty text
extract_claude_message_any_text(value) ==
    IF value.type.k # "str" THEN None
    ELSE IF value.type.s # <<"user">> /\ value.type.s # <<"assistant">> THEN None
    ELSE IF ~value.message.present THEN None
    ELSE LET role == IF value.message.role.k = "str"
                     THEN value.message.role.s
                     ELSE value.type.s
         IN  IF ~parse_role(role).some THEN None
             ELSE Some(parse_role(role).role, extract_text(value.message.content))

extract_claude_message(value) ==
    IF value.type.k # "str" THEN None
    ELSE IF value.type.s # <<"user">> /\ value.type.s # <<"assistant">> THEN None
    ELSE IF ~value.message.present THEN None
    ELSE LET role == IF value.message.role.k = "str"
                     THEN value.message.role.s
                     ELSE value.type.s
         IN  IF ~parse_role(role).some THEN None
             ELSE LET text == extract_text(value.message.content)
                  IN  IF Trim(text) = <<>> THEN None
                      ELSE Some(parse_role(role).role, text)

(***************************************************************************)
(* The raw text is a sequence of tokens: a line feed, a whitespace         *)
(* character, a character that belongs to no JSON document, or the text of *)
(* one complete JSON document.                                             *)
(***************************************************************************)
NoDoc == [type |-> Absent, payload |-> NoObject, message |-> NoObject]

NL == [t |-> "nl", d |-> NoDoc]

SP == [t |-> "sp", d |-> NoDoc]

JUNK == [t |-> "junk", d |-> NoDoc]

DocTok(d) == [t |-> "doc", d |-> d]

\* str::lines: the pieces between line feeds, without a last empty piece
RECURSIVE SplitNl(_, _)
SplitNl(raw, cur) ==
    IF raw = <<>> THEN <<cur>>
    ELSE IF Head(raw).t = "nl" THEN <<cur>> \o SplitNl(Tail(raw), <<>>)
    ELSE SplitNl(Tail(raw), Append(cur, Head(raw)))

\* lines() followed by a filter that drops the empty lines
LinesWithoutEmpty(raw) ==
    SelectSeq(SplitNl(raw, <<>>), LAMBDA piece : piece # <<>>)

Lines(raw) ==
    LET pieces == SplitNl(raw, <<>>)
    IN  IF pieces[Len(pieces)] = <<>>
        THEN SubSeq(pieces, 1, Len(pieces) - 1)
        ELSE pieces

\* line.trim()
RECURSIVE TrimLineStart(_)
TrimLineStart(line) ==
    IF line # <<>> /\ Head(line).t = "sp" THEN TrimLineStart(Tail(line)) ELSE line

RECURSIVE TrimLineEnd(_)
TrimLineEnd(line) ==
    IF line # <<>> /\ line[Len(line)].t = "sp"
    THEN TrimLineEnd(SubSeq(line, 1, Len(line) - 1))
    ELSE line

TrimLine(line) == TrimLineEnd(TrimLineStart(line))

\* serde_json::from_str: one document and nothing else
from_str(trimmed) ==
    IF Len(trimmed) = 1 /\ trimmed[1].t = "doc"
    THEN [ok |-> TRUE, value |-> trimmed[1].d]
    ELSE [ok |-> FALSE, value |-> NoDoc]

NotExtracted == [status |-> "none", messages |-> <<>>, line |-> 0]

InvalidJsonLine(line_no) ==
    [status |-> "InvalidJsonLine", messages |-> <<>>, line |-> line_no]

Message(m) == [role |-> m.role, text |-> m.text]

\* the provider dispatch of extract_messages
ExtractRecord(kind, value) ==
    IF kind = "codex" THEN extract_codex_message(value)
    ELSE extract_claude_message(value)

\* extract_messages: the loop over raw_jsonl.lines().enumerate()
RECURSIVE ExtractLoop(_, _, _, _)
ExtractLoop(kind, lines, line_idx, messages) ==
    IF line_idx >= Len(lines)
    THEN [status |-> "ok", messages |-> messages, line |-> 0]
    ELSE LET line_no == line_idx + 1
             trimmed == TrimLine(lines[line_idx + 1])
         IN  IF trimmed = <<>>
             THEN ExtractLoop(kind, lines, line_idx + 1, messages)
             ELSE IF ~from_str(trimmed).ok
             THEN InvalidJsonLine(line_no)
             ELSE LET m == ExtractRecord(kind, from_str(trimmed).value)
                  IN  ExtractLoop(kind, lines, line_idx + 1,
                                  IF m.some THEN Append(messages, Message(m))
                                  ELSE messages)

extract_messages(kind, raw) == ExtractLoop(kind, Lines(raw), 0, <<>>)

(***************************************************************************)
(* Inputs of resolve.                                                      *)
(***************************************************************************)
SidChars == {"a", "b"}

SessionIds == SeqsUpTo(SidChars, MaxSid) \ {<<>>}

TreeSids == {<<"a">>, <<"b">>}

TreeName(sid) == RolloutPrefix \o <<"t", "-">> \o sid \o JsonlSuffix

\* rollout files of session a with every modification time, a recent one of
\* session b
TreeEntries ==
    [name : {TreeName(<<"a">>)}, kind : {"file"}, mtime : MTimes]
        \cup [name : {TreeName(<<"b">>)}, kind : {"file"},
              mtime : {[ok |-> TRUE, t |-> MaxTime]}]

MidChars == {"-", "a", "b"}

NamePrefixes == {RolloutPrefix, <<"r", "o", "l", "l", "o", "u", "t">>,
                 <<"x">> \o RolloutPrefix}

NameSuffixes == {JsonlSuffix, <<".", "j", "s", "o", "n">>, JsonlSuffix \o <<"x">>}

FileNames == {p \o m \o s : p \in NamePrefixes, m \in SeqsUpTo(MidChars, MaxMid),
                            s \in NameSuffixes}

NameEntries == [name : FileNames, kind : {"file", "dir"},
                mtime : {[ok |-> TRUE, t |-> 1]}]

(***************************************************************************)
(* Inputs of extract_messages.                                             *)
(***************************************************************************)
Providers == {"codex", "claude"}

TextChars == {" ", "h"}

Texts == SeqsUpTo(TextChars, MaxText)

TextFields == {Absent, Num} \cup {Str(t) : t \in Texts}

\* items of the arrays of several items
FewTypes == {Absent, Word("text"), Word("tool_use")}

FewFields ==
    {[text |-> Str(<<" ", "h">>), input_text |-> Absent, output_text |-> Absent],
     [text |-> Str(<<" ">>), input_text |-> Str(<<"i">>), output_text |-> Absent],
     [text |-> Absent, input_text |-> Absent, output_text |-> Str(<<"o", " ">>)],
     [text |-> Absent, input_text |-> Absent, output_text |-> Absent]}

FewItems ==
    {[type |-> ty, text |-> f.text, input_text |-> f.input_text,
      output_text |-> f.output_text] : ty \in FewTypes, f \in FewFields}

\* items of the arrays of one item
ItemTypes ==
    {Absent, Num, Word("text"), Word("input_text")} \cup {Word(t) : t \in TOOL_TYPES}

Items ==
    [type : ItemTypes, text : TextFields,
     input_text : {Absent, Str(<<"i">>), Str(<<" ">>)},
     output_text : {Absent, Str(<<"o">>)}]

Contents ==
    {NoContent, NumContent}
        \cup {StrContent(t) : t \in Texts}
        \cup {ArrContent(items) : items \in SeqsUpTo(FewItems, MaxItems)}
        \cup {ArrContent(<<item>>) : item \in Items}

FewContents ==
    {NoContent, StrContent(<<"h">>),
     ArrContent(<<[type |-> Word("text"), text |-> Str(<<"h">>),
                   input_text |-> Absent, output_text |-> Absent]>>)}

RecordTypes ==
    {Absent, Num, Word("response_item"), Word("event_msg"), Word("user"),
     Word("assistant")} \cup {Word(t) : t \in TOOL_TYPES}

ObjectTypes ==
    {Absent, Word("message"), Word("agent_message"), Word("function_call")}

Roles == {Absent, Num, Word("user"), Word("assistant"), Word("system"), Word("User")}

\* records of every type, with a small content
Objects ==
    {NoObject} \cup
    [present : {TRUE}, type : ObjectTypes, role : Roles, content : FewContents,
     message : TextFields]

AnyRecords ==
    {[type |-> ty, payload |-> o, message |-> NoObject] : ty \in RecordTypes, o \in Objects}
        \cup
    {[type |-> ty, payload |-> NoObject, message |-> o] : ty \in RecordTypes, o \in Objects}

\* message records of both providers, with every content
MessageRecords ==
    {[type |-> Word("response_item"),
      payload |-> [present |-> TRUE, type |-> Word("message"), role |-> Word(r),
                   content |-> c, message |-> Absent],
      message |-> NoObject] : r \in {"user", "assistant"}, c \in Contents}
        \cup
    {[type |-> Word(r), payload |-> NoObject,
      message |-> [present |-> TRUE, type |-> Word("message"), role |-> Word(r),
                   content |-> c, message |-> Absent]]
        : r \in {"user", "assistant"}, c \in Contents}

\* the documents of the raw texts of several lines
UserHello ==
    [type |-> Word("response_item"),
     payload |-> [present |-> TRUE, type |-> Word("message"), role |-> Word("user"),
                  content |-> StrContent(<<"h">>), message |-> Absent],
     message |-> NoObject]

FunctionCall ==
    [type |-> Word("response_item"),
     payload |-> [present |-> TRUE, type |-> Word("function_call"), role |-> Absent,
                  content |-> NoContent, message |-> Absent],
     message |-> NoObject]

LineTokens == {NL, SP, JUNK, DocTok(UserHello), DocTok(FunctionCall)}

\* the file the tests write: "{}\n"
EmptyObjectLine == <<DocTok(NoDoc), NL>>

OneFileTree ==
    [r \in Roots |->
       IF r = SessionsRoot
       THEN [exists |-> TRUE,
             entries |-> <<[name |-> TreeName(<<"a">>),
                            kind |-> "file", mtime |-> [ok |-> TRUE, t |-> 1]]>>]
       ELSE [exists |-> FALSE, entries |-> <<>>]]

\* trees of up to MaxFiles matching or foreign rollout files over both roots
InitTrees ==
    /\ session_id \in TreeSids
    /\ \E all \in SeqsUpTo(TreeEntries, MaxFiles) :
         \E k \in 0..Len(all) :
           \E es \in BOOLEAN, ea \in BOOLEAN :
             /\ es \/ k = 0
             /\ ea \/ k = Len(all)
             /\ fs = [r \in Roots |->
                        IF r = SessionsRoot
                        THEN [exists |-> es, entries |-> SubSeq(all, 1, k)]
                        ELSE [exists |-> ea, entries |-> SubSeq(all, k + 1, Len(all))]]
    /\ provider = "codex"
    /\ raw_jsonl = EmptyObjectLine

\* one entry of any name and kind below sessions, no archived_sessions
InitNames ==
    /\ session_id \in SessionIds
    /\ \E e \in NameEntries :
         fs = [r \in Roots |->
                 IF r = SessionsRoot
                 THEN [exists |-> TRUE, entries |-> <<e>>]
                 ELSE [exists |-> FALSE, entries |-> <<>>]]
    /\ provider = "codex"
    /\ raw_jsonl = EmptyObjectLine

\* one file of one record
InitRecords ==
    /\ session_id = <<"a">>
    /\ fs = OneFileTree
    /\ provider \in Providers
    /\ \E d \in AnyRecords \cup MessageRecords : raw_jsonl = <<DocTok(d)>>

\* one file of several lines
InitLines ==
    /\ session_id = <<"a">>
    /\ fs = OneFileTree
    /\ provider \in Providers
    /\ raw_jsonl \in SeqsUpTo(LineTokens, MaxRaw)

Init ==
    /\ InitTrees \/ InitNames \/ InitRecords \/ InitLines
    /\ resolved = Unresolved
    /\ walked = <<>>
    /\ extracted = NotExtracted

\* resolve_thread: CodexProvider::resolve on the session id
Resolve ==
    /\ resolved.status = "none"
    /\ LET r == ResolveThread(session_id)
       IN  /\ resolved' = r.result
           /\ walked' = r.walked
    /\ UNCHANGED <<fs, session_id, provider, raw_jsonl, extracted>>

\* render_markdown: extract_messages on the text of the resolved file
Extract ==
    /\ resolved.status = "ok"
    /\ extracted.status = "none"
    /\ extracted' = extract_messages(provider, raw_jsonl)
    /\ UNCHANGED <<fs, session_id, resolved, walked, provider, raw_jsonl>>

Next == Resolve \/ Extract

Spec == Init /\ [][Next]_vars

(***************************************************************************)
(* Properties of resolve.                                                  *)
(***************************************************************************)
Range(seq) == {seq[i] : i \in 1..Len(seq)}

Min(S) == CHOOSE x \in S : \A y \in S : x <= y

\* the entries of root that are candidates for the queried session id
CandidateSet(root) ==
    {i \in 1..Len(fs[root].entries) :
        /\ fs[root].exists
        /\ fs[root].entries[i].kind = "file"
        /\ NameMatches(fs[root].entries[i].name, session_id)}

\* C1: when sessions holds a candidate, resolve returns a file below sessions
\* with source codex:sessions and never calls find_candidates on
\* archived_sessions, whatever the modification times are; a file below
\* archived_sessions is returned only when sessions holds no candidate.
RootPriority ==
    resolved.status # "none" =>
        /\ CandidateSet(SessionsRoot) # {} =>
              /\ resolved.status = "ok"
              /\ resolved.path.root = SessionsRoot
              /\ resolved.path.idx \in CandidateSet(SessionsRoot)
              /\ resolved.source = "codex:sessions"
              /\ ArchivedRoot \notin Range(walked)
        /\ (resolved.status = "ok" /\ resolved.path.root = ArchivedRoot) =>
              CandidateSet(SessionsRoot) = {}

\* C1 witness: sessions matched although an archived candidate is newer
RootPriorityWitness ==
    /\ resolved.status = "ok"
    /\ resolved.path.root = SessionsRoot
    /\ \E i \in CandidateSet(ArchivedRoot) :
         /\ fs[ArchivedRoot].entries[i].mtime.ok
         /\ EntryAt(resolved.path).mtime.ok
         /\ fs[ArchivedRoot].entries[i].mtime.t > EntryAt(resolved.path).mtime.t

\* C2: the path resolve returns is a candidate of the matched root, and no
\* candidate of that root ranks later than it, the rank of a candidate being
\* its modification time, or the epoch when that cannot be read.
RecencySelection ==
    resolved.status = "ok" =>
        /\ resolved.path.idx \in CandidateSet(resolved.path.root)
        /\ resolved.path = PathOf(resolved.path.root, resolved.path.idx)
        /\ \A i \in CandidateSet(resolved.path.root) :
             Modified(PathOf(resolved.path.root, i)) <= Modified(resolved.path)

\* C2 witness: the latest of several candidates is not the first one walked
RecencySelectionWitness ==
    /\ resolved.status = "ok"
    /\ resolved.candidate_count >= 2
    /\ resolved.path.idx # Min(CandidateSet(resolved.path.root))
    /\ \A i \in CandidateSet(resolved.path.root) \ {resolved.path.idx} :
         Modified(PathOf(resolved.path.root, i)) < Modified(resolved.path)

\* C3: when a root holds candidates resolve succeeds; candidate_count is the
\* number N of candidates of the matched root alone; there is a warning iff
\* N > 1, and then exactly one, naming N and the selected path.
AmbiguityReported ==
    resolved.status # "none" =>
        /\ (\E r \in Roots : CandidateSet(r) # {}) => resolved.status = "ok"
        /\ resolved.status = "ok" =>
             LET N == Cardinality(CandidateSet(resolved.path.root))
             IN  /\ N >= 1
                 /\ resolved.candidate_count = N
                 /\ resolved.warnings # <<>> <=> N > 1
                 /\ N > 1 =>
                      /\ Len(resolved.warnings) = 1
                      /\ resolved.warnings[1].count = N
                      /\ resolved.warnings[1].selected = resolved.path

\* C3 witness: two candidates below sessions and a further one archived
AmbiguityReportedWitness ==
    /\ resolved.status = "ok"
    /\ resolved.path.root = SessionsRoot
    /\ resolved.candidate_count = 2
    /\ Len(resolved.warnings) = 1
    /\ CandidateSet(ArchivedRoot) # {}

\* C4: resolve fails with ThreadNotFound iff neither root holds a candidate;
\* the error carries the provider, the queried session id and the roots
\* searched, sessions then archived_sessions; a root that does not exist
\* holds no candidate and produces no other error.
NotFoundIffNoCandidate ==
    resolved.status # "none" =>
        /\ resolved.status \in {"ok", "ThreadNotFound"}
        /\ resolved.status = "ThreadNotFound" <=>
             \A r \in Roots : CandidateSet(r) = {}
        /\ resolved.status = "ThreadNotFound" =>
             /\ resolved.provider = "codex"
             /\ resolved.session_id = session_id
             /\ resolved.searched_roots = <<SessionsRoot, ArchivedRoot>>
             /\ resolved.searched_roots = walked
        /\ \A r \in Roots : ~fs[r].exists => CandidateSet(r) = {}

\* C4 witness: not found with a root that does not exist and a root that
\* holds only files of another session
NotFoundWitness ==
    /\ resolved.status = "ThreadNotFound"
    /\ \E r \in Roots : ~fs[r].exists
    /\ \E r \in Roots : fs[r].entries # <<>>

\* C9 as claimed: when a candidate of the matched root has a readable
\* modification time, the selected file has a readable modification time.
ReadableOutranksUnreadable ==
    resolved.status = "ok" =>
        ((\E i \in CandidateSet(resolved.path.root) :
             fs[resolved.path.root].entries[i].mtime.ok)
            => EntryAt(resolved.path).mtime.ok)

\* the pattern rollout-*-<session_id>.jsonl
PatternMatches(name, sid) ==
    \E k \in 0..Len(name) :
        /\ Len(name) = Len(RolloutPrefix) + k + 1 + Len(sid) + Len(JsonlSuffix)
        /\ name = RolloutPrefix \o SubSeq(name, Len(RolloutPrefix) + 1,
                                          Len(RolloutPrefix) + k)
                      \o <<"-">> \o sid \o JsonlSuffix

\* C10 as claimed: below a searched root, an entry is a candidate iff it is a
\* regular file whose name matches rollout-*-<session_id>.jsonl.
CandidateIffPattern ==
    \A r \in Range(walked) :
        \A i \in 1..Len(fs[r].entries) :
            PathOf(r, i) \in Range(find_candidates(r, session_id))
                <=> /\ fs[r].entries[i].kind = "file"
                    /\ PatternMatches(fs[r].entries[i].name, session_id)

(***************************************************************************)
(* Properties of extract_messages.                                         *)
(***************************************************************************)
\* the 1-based line of the raw text that position p lies on
LineOf(p) == 1 + Cardinality({q \in 1..(p - 1) : raw_jsonl[q].t = "nl"})

OnLine(n, t) == {p \in 1..Len(raw_jsonl) : raw_jsonl[p].t = t /\ LineOf(p) = n}

\* the lines that are not blank and not one JSON document
InvalidLines ==
    {n \in 1..(Len(raw_jsonl) + 1) :
        OnLine(n, "junk") # {} \/ Cardinality(OnLine(n, "doc")) >= 2}

\* the documents of the raw text
Documents == {raw_jsonl[p].d : p \in {q \in 1..Len(raw_jsonl) : raw_jsonl[q].t = "doc"}}

\* C5: when a non-blank line is not valid JSON, extract_messages returns
\* InvalidJsonLine and no message, and the line it reports is the 1-based
\* position of the first such line, blank lines counted; blank lines cause
\* no error.
FatalParse ==
    extracted.status # "none" =>
        IF InvalidLines # {}
        THEN /\ extracted.status = "InvalidJsonLine"
             /\ extracted.messages = <<>>
             /\ extracted.line = Min(InvalidLines)
        ELSE extracted.status = "ok"

\* C5 witness: a message line, a blank line, then an invalid third line
FatalParseWitness ==
    /\ extracted.status = "InvalidJsonLine"
    /\ extracted.line = 3
    /\ OnLine(1, "doc") # {}
    /\ ExtractRecord(provider, raw_jsonl[1].d).some
    /\ OnLine(2, "doc") = {}
    /\ OnLine(2, "junk") = {}

IsToolType(field) ==
    field.k = "str" /\ Len(field.s) = 1 /\ field.s[1] \in TOOL_TYPES

\* a record whose type, or for Codex whose payload type, is tool noise
NoiseRecord(kind, d) ==
    \/ IsToolType(d.type)
    \/ kind = "codex" /\ d.payload.present /\ IsToolType(d.payload.type)

RECURSIVE WithoutNoiseItems(_)
WithoutNoiseItems(items) ==
    IF items = <<>> THEN <<>>
    ELSE IF IsToolType(Head(items).type) THEN WithoutNoiseItems(Tail(items))
    ELSE <<Head(items)>> \o WithoutNoiseItems(Tail(items))

ObjectWithoutNoise(o) ==
    [o EXCEPT !.content.items = WithoutNoiseItems(o.content.items)]

\* the raw text with every tool-noise record blanked and every tool-noise
\* content item removed
WithoutNoise(kind, raw) ==
    [p \in 1..Len(raw) |->
        IF raw[p].t # "doc" THEN raw[p]
        ELSE IF NoiseRecord(kind, raw[p].d) THEN SP
        ELSE DocTok([type |-> raw[p].d.type,
                     payload |-> ObjectWithoutNoise(raw[p].d.payload),
                     message |-> ObjectWithoutNoise(raw[p].d.message)])]

\* C6: no record and no content item of a tool-noise type contributes to
\* the extracted sequence: the result is the one of the raw text without
\* them, so such a record yields no message, such an item no text whatever
\* text fields it carries, and the other items are still emitted.
NoiseFiltering ==
    extracted.status = "ok" =>
        extracted = extract_messages(provider, WithoutNoise(provider, raw_jsonl))

\* C6 witness: a message is emitted from an array that holds a tool-noise
\* item carrying text next to an item that is no tool noise
NoiseFilteringWitness ==
    /\ extracted.status = "ok"
    /\ Len(extracted.messages) = 1
    /\ \E d \in Documents :
         LET items == IF provider = "codex" THEN d.payload.content.items
                      ELSE d.message.content.items
         IN  /\ Len(items) = 2
             /\ IsToolType(items[1].type)
             /\ NonBlankStr(items[1].text)
             /\ ~IsToolType(items[2].type)
             /\ items[2].input_text.k = "str"
             /\ extracted.messages[1].text = Trim(items[2].input_text.s)
             /\ extracted.messages[1].text # Trim(items[1].text.s)

\* the text the provider's extractor assembles for a record
Assembled(kind, d) ==
    IF kind = "claude" THEN extract_text(d.message.content)
    ELSE IF d.type = Word("event_msg")
    THEN IF d.payload.message.k = "str" THEN d.payload.message.s ELSE <<>>
    ELSE extract_text(d.payload.content)

\* C7: no returned message has a text that is empty after trimming, and a
\* record whose assembled text is empty or whitespace is dropped without
\* error.
EmptyTextSuppression ==
    /\ extracted.status = "ok" =>
         \A i \in 1..Len(extracted.messages) :
             Trim(extracted.messages[i].text) # <<>>
    /\ (extracted.status # "none" /\ Len(raw_jsonl) = 1 /\ raw_jsonl[1].t = "doc"
           /\ Trim(Assembled(provider, raw_jsonl[1].d)) = <<>>)
         => extracted = [status |-> "ok", messages |-> <<>>, line |-> 0]


\* C7 witness: a message record whose array holds only tool-noise and blank
\* items is dropped, and extraction succeeds
EmptyTextSuppressionWitness ==
    /\ extracted = [status |-> "ok", messages |-> <<>>, line |-> 0]
    /\ \E d \in Documents :
         LET o == IF provider = "codex" THEN d.payload ELSE d.message
         IN  /\ o.present
             /\ o.role \in {Word("user"), Word("assistant")}
             /\ d.type \in {Word("response_item"), Word("user"), Word("assistant")}
             /\ o.type = Word("message")
             /\ Len(o.content.items) = 2
             /\ IsToolType(o.content.items[1].type)
             /\ NonBlankStr(o.content.items[1].text)
             /\ ~IsToolType(o.content.items[2].type)
             /\ ~NonBlankStr(o.content.items[2].text)
             /\ ~NonBlankStr(o.content.items[2].input_text)
             /\ ~NonBlankStr(o.content.items[2].output_text)

Trimmed(text) == Trim(text) = text

\* C8 as claimed: every returned message text has no leading and no
\* trailing whitespace.
AlwaysTrimmed ==
    extracted.status = "ok" =>
        \A i \in 1..Len(extracted.messages) : Trimmed(extracted.messages[i].text)

\* text is the plain string content, or the agent_message string, that the
\* provider's extractor reads from document d
VerbatimSource(kind, d, text) ==
    IF kind = "claude"
    THEN d.message.content.k = "str" /\ d.message.content.s = text
    ELSE \/ d.payload.content.k = "str" /\ d.payload.content.s = text
         \/ d.payload.message.k = "str" /\ d.payload.message.s = text

\* C8 amended: a returned message text is not blank; it has no leading and
\* no trailing whitespace unless it is, verbatim, the plain string content or
\* the agent_message string of a record of the raw text; the text of a
\* record with array content is always trimmed.
TrimmedUnlessVerbatim ==
    extracted.status = "ok" =>
        /\ \A i \in 1..Len(extracted.messages) :
             /\ Trim(extracted.messages[i].text) # <<>>
             /\ \/ Trimmed(extracted.messages[i].text)
                \/ \E d \in Documents :
                     VerbatimSource(provider, d, extracted.messages[i].text)
        /\ (Len(raw_jsonl) = 1 /\ raw_jsonl[1].t = "doc"
              /\ raw_jsonl[1].d.type # Word("event_msg")
              /\ (IF provider = "codex" THEN raw_jsonl[1].d.payload.content.k
                  ELSE raw_jsonl[1].d.message.content.k) = "arr")
             => \A i \in 1..Len(extracted.messages) :
                    Trimmed(extracted.messages[i].text)

\* C8 witness: a message assembled from array items whose texts carry
\* surrounding whitespace
TrimmedUnlessVerbatimWitness ==
    /\ extracted.status = "ok"
    /\ Len(extracted.messages) = 1
    /\ Trimmed(extracted.messages[1].text)
    /\ \E d \in Documents :
         LET items == IF provider = "codex" THEN d.payload.content.items
                      ELSE d.message.content.items
         IN  /\ Len(items) = 2
             /\ \A j \in 1..2 :
                  /\ ~IsToolType(items[j].type)
                  /\ \/ NonBlankStr(items[j].text) /\ ~Trimmed(items[j].text.s)
                     \/ /\ ~NonBlankStr(items[j].text)
                        /\ ~NonBlankStr(items[j].input_text)
                        /\ NonBlankStr(items[j].output_text)
                        /\ ~Trimmed(items[j].output_text.s)

====
